---- MODULE Spec2Model ----
(***************************************************************************)
(* Notelytic: the note dashboard component (NotelyticsNoteDashboard), its  *)
(* IndexedDB storage shim and its derived filtered/sorted view.            *)
(*                                                                         *)
(* Text (titles, contents, tags, the search term) is a sequence of         *)
(* characters; category names, colours and images are opaque strings that  *)
(* the code only compares for equality.  A Date is a record carrying its   *)
(* millisecond value; the ISO string JSON.stringify makes of a Date is a    *)
(* record of another kind carrying the same value.                         *)
(***************************************************************************)
EXTENDS Integers, Sequences, FiniteSets, TLC

VARIABLES
  notes,            \* useState<Note[]>: the in-memory list
  categories,       \* useState<Category[]>
  editingNote,      \* useState<Note | null>
  newNote,          \* useState<NewNote>: the add form
  isAddingNote,     \* useState(false): the add dialog
  newCategory,      \* useState<Category>: the category form
  selectedCategory, \* useState('All')
  searchTerm,       \* useState('')
  showArchived,     \* useState(false)
  sortBy,           \* useState('updatedAt')
  view,             \* the memoised filteredNotes of the last render
  allTags,          \* useState<string[]>: the tags the effect on notes collected
  dbNotes,          \* object store 'notes', keyed by id
  dbCategories,     \* object store 'categories', keyed by name
  inflight,         \* storage transactions created and not yet finished, oldest first
  now,              \* the clock: Date.now() and new Date()
  toasts,           \* the toasts raised by the last step
  exportFile,       \* the last file exportNotes produced (NULL: none yet)
  failures,         \* number of storage requests rejected so far
  ops,              \* number of handlers that have created a transaction so far
  importBase,       \* history: the file, the stores and the lists when the last import began
  deletedIds        \* history: the ids whose deleteNote has finished

vars == <<notes, categories, editingNote, newNote, isAddingNote, newCategory,
          selectedCategory, searchTerm, showArchived, sortBy, view, allTags,
          dbNotes, dbCategories, inflight, now, toasts, exportFile,
          failures, ops, importBase, deletedIds>>

NULL == [kind |-> "null"]

(***************************************************************************)
(* Bounds of the model.                                                    *)
(***************************************************************************)
MaxViewLen == 2      \* longest notes list the view specification starts from
MaxInflight == 2     \* storage transactions pending at once
MaxTicks == 2        \* clock advances
MaxFailures == 1     \* rejected storage requests
MaxOps == 4          \* handlers of the user that reach the store
MaxNotes == 4        \* notes the list is allowed to grow to by addNote
StartClock == 10     \* the clock value the session starts at

(***************************************************************************)
(* Text.                                                                   *)
(***************************************************************************)
Str(c) == <<c>>
EmptyStr == <<>>

LowerLetters == <<"a", "b", "c", "f", "g", "n", "t", "w">>
UpperLetters == <<"A", "B", "C", "F", "G", "N", "T", "W">>

LowerChar(c) ==
  IF \E i \in 1..Len(UpperLetters) : UpperLetters[i] = c
  THEN LowerLetters[CHOOSE i \in 1..Len(UpperLetters) : UpperLetters[i] = c]
  ELSE c

\* String.prototype.toLowerCase
toLowerCase(s) == [i \in 1..Len(s) |-> LowerChar(s[i])]

\* String.prototype.includes
includes(s, sub) ==
  \E i \in 0..(Len(s) - Len(sub)) : SubSeq(s, i + 1, i + Len(sub)) = sub

\* String.prototype.trim
RECURSIVE trimStart(_)
trimStart(s) ==
  IF s # <<>> /\ s[1] = " " THEN trimStart(Tail(s)) ELSE s

RECURSIVE trimEnd(_)
trimEnd(s) ==
  IF s # <<>> /\ s[Len(s)] = " " THEN trimEnd(SubSeq(s, 1, Len(s) - 1)) ELSE s

trim(s) == trimEnd(trimStart(s))

\* Collation keys of a character: letters compare alphabetically first, and
\* only then by case, lower case first.
CharPrimary(c) ==
  IF \E i \in 1..Len(LowerLetters) : LowerLetters[i] = LowerChar(c)
  THEN CHOOSE i \in 1..Len(LowerLetters) : LowerLetters[i] = LowerChar(c)
  ELSE 0
CharTertiary(c) == IF \E i \in 1..Len(UpperLetters) : UpperLetters[i] = c THEN 1 ELSE 0

RECURSIVE SeqCompare(_, _)
SeqCompare(s, t) ==
  IF s = <<>> /\ t = <<>> THEN 0
  ELSE IF s = <<>> THEN -1
  ELSE IF t = <<>> THEN 1
  ELSE IF s[1] < t[1] THEN -1
  ELSE IF s[1] > t[1] THEN 1
  ELSE SeqCompare(Tail(s), Tail(t))

\* String.prototype.localeCompare
localeCompare(s, t) ==
  LET p == SeqCompare([i \in 1..Len(s) |-> CharPrimary(s[i])],
                      [i \in 1..Len(t) |-> CharPrimary(t[i])])
  IN IF p # 0 THEN p
     ELSE SeqCompare([i \in 1..Len(s) |-> CharTertiary(s[i])],
                     [i \in 1..Len(t) |-> CharTertiary(t[i])])

(***************************************************************************)
(* Dates.                                                                  *)
(***************************************************************************)
DateOf(ms) == [kind |-> "Date", ms |-> ms]
IsoString(ms) == [kind |-> "String", ms |-> ms]

\* new Date(x), x a Date or the ISO string of one
newDate(x) == DateOf(x.ms)

\* Date.prototype.getTime
getTime(d) == d.ms

\* JSON.stringify of a Date (Date.prototype.toJSON)
dateToJSON(d) == IsoString(d.ms)

(***************************************************************************)
(* The filtered and sorted view.                                           *)
(***************************************************************************)
\* the predicate of notes.filter(...)
matchesFilter(note, cat, term, archived) ==
  /\ (cat = "All" \/ note.category = cat)
  /\ \/ includes(toLowerCase(note.title), toLowerCase(term))
     \/ includes(toLowerCase(note.content), toLowerCase(term))
     \/ \E i \in 1..Len(note.tags) :
          includes(toLowerCase(note.tags[i]), toLowerCase(term))
  /\ (IF archived THEN note.isArchived ELSE ~note.isArchived)

\* a comparator as a plausible slip would write it: oldest first
compareNotesAscending(a, b, by) ==
  IF a.isPinned /\ ~b.isPinned THEN -1
  ELSE IF ~a.isPinned /\ b.isPinned THEN 1
  ELSE IF by = "title" THEN localeCompare(a.title, b.title)
  ELSE getTime(a[by]) - getTime(b[by])

\* the comparator of .sort(...)
compareNotes(a, b, by) ==
  IF a.isPinned /\ ~b.isPinned THEN -1
  ELSE IF ~a.isPinned /\ b.isPinned THEN 1
  ELSE IF by = "title" THEN localeCompare(a.title, b.title)
  ELSE getTime(b[by]) - getTime(a[by])

\* Array.prototype.sort: a stable sort
RECURSIVE insertInto(_, _, _)
insertInto(sorted, x, by) ==
  IF sorted = <<>> THEN <<x>>
  ELSE LET last == sorted[Len(sorted)]
       IN IF compareNotes(last, x, by) > 0
          THEN Append(insertInto(SubSeq(sorted, 1, Len(sorted) - 1), x, by), last)
          ELSE Append(sorted, x)

RECURSIVE ArraySort(_, _)
ArraySort(arr, by) ==
  IF arr = <<>> THEN <<>>
  ELSE insertInto(ArraySort(SubSeq(arr, 1, Len(arr) - 1), by), arr[Len(arr)], by)

\* a filter as a plausible slip would write it: the archive switch forgotten
ArrayFilterNoArchive(arr, cat, term, archived) ==
  LET keep(note) == matchesFilter(note, cat, term, note.isArchived)
  IN SelectSeq(arr, keep)

\* Array.prototype.filter with the predicate above: a new array
ArrayFilter(arr, cat, term, archived) ==
  LET keep(note) == matchesFilter(note, cat, term, archived)
  IN SelectSeq(arr, keep)

\* the memo as a plausible slip would write it: notes.sort(...).filter(...),
\* which reorders the state array itself
useMemoSortInPlace(ns, cat, term, archived, by) ==
  LET sorted == ArraySort(ns, by)
  IN [source |-> sorted, result |-> ArrayFilter(sorted, cat, term, archived)]

\* useMemo(() => notes.filter(...).sort(...)): the array it returns, and the
\* notes array as the computation leaves it (sort reorders filter's copy)
useMemoFilteredNotes(ns, cat, term, archived, by) ==
  [source |-> ns, result |-> ArraySort(ArrayFilter(ns, cat, term, archived), by)]

filteredNotes(ns, cat, term, archived, by) ==
  useMemoFilteredNotes(ns, cat, term, archived, by).result

(***************************************************************************)
(* Notes, categories and the values the component starts from.             *)
(***************************************************************************)
Note(id, title, content, category, color, created, updated, image, tags) ==
  [id |-> id, title |-> title, content |-> content, category |-> category,
   color |-> color, createdAt |-> created, updatedAt |-> updated,
   image |-> image, isPinned |-> FALSE, isArchived |-> FALSE, tags |-> tags]

Category(name, color) == [name |-> name, color |-> color]

\* const initialCategories (the emoji of the names left out)
initialCategories ==
  << Category("Work", "#FF5733"), Category("Personal", "#33FF57"),
     Category("Ideas", "#3357FF"), Category("To-Do", "#FF33F5") >>

\* const welcomeNotes; titles, contents and tags shortened to their initial
\* letter; they carry no image property
welcomeNotes(t) ==
  << Note(1, Str("W"), Str("T"), "Personal", "#33FF57", DateOf(t), DateOf(t), "absent", <<Str("w")>>),
     Note(2, Str("G"), Str("C"), "To-Do", "#FF33F5", DateOf(t), DateOf(t), "absent", <<Str("t")>>),
     Note(3, Str("F"), Str("N"), "Ideas", "#3357FF", DateOf(t), DateOf(t), "absent", <<Str("f")>>) >>

\* useState<NewNote>({ title: '', content: '', category: '', ... })
emptyNewNote ==
  [title |-> EmptyStr, content |-> EmptyStr, category |-> "", color |-> "",
   image |-> "", tags |-> <<>>]

\* useState<Category>({ name: '', color: '#000000' })
emptyNewCategory == Category("", "#000000")

Toast(kind, msg) == [kind |-> kind, msg |-> msg]

(***************************************************************************)
(* The storage shim.  An object store is a function from its keys to its   *)
(* records; getAll returns the records in key order.  Keys of 'notes' are   *)
(* the decimal strings of the ids, keys of 'categories' the names.         *)
(***************************************************************************)
RECURSIVE Digits(_)
Digits(n) == IF n < 10 THEN <<n>> ELSE Append(Digits(n \div 10), n % 10)

\* the order of the keys of 'notes': ids are strings, compared as strings
noteKeyBefore(a, b) == SeqCompare(Digits(a), Digits(b)) < 0

\* the order of the keys of 'categories', over the names of the model
categoryKeyOrder == <<"Extra", "Ideas", "Personal", "To-Do", "Work">>
categoryKeyBefore(a, b) ==
  \E i, j \in 1..Len(categoryKeyOrder) :
    /\ categoryKeyOrder[i] = a /\ categoryKeyOrder[j] = b /\ i < j

emptyStore == <<>>

\* store.put(data): an upsert under the record's key
\* (a plausible slip: put that never replaces an existing record)
storeAddOnly(db, key, data) ==
  [k \in DOMAIN db \cup {key} |-> IF k \in DOMAIN db THEN db[k] ELSE data]

storePut(db, key, data) ==
  [k \in DOMAIN db \cup {key} |-> IF k = key THEN data ELSE db[k]]

\* store.delete(key)
storeDelete(db, key) == [k \in DOMAIN db \ {key} |-> db[k]]

\* the order of the keys of an object store
keyBefore(storeName, a, b) ==
  IF storeName = "notes" THEN noteKeyBefore(a, b) ELSE categoryKeyBefore(a, b)

\* store.getAll(): the records in the order of their keys
storeGetAll(db, storeName) ==
  [i \in 1..Cardinality(DOMAIN db) |->
     db[CHOOSE k \in DOMAIN db :
          Cardinality({j \in DOMAIN db : keyBefore(storeName, j, k)}) = i - 1]]

getAllNotes(db) == storeGetAll(db, "notes")
getAllCategories(db) == storeGetAll(db, "categories")

\* A transaction saveToIndexedDB, getAllFromIndexedDB or deleteFromIndexedDB
\* creates: the handler (and the place in it) that awaits it, the store, the
\* request with its argument, and the handler's local values.
Tx(op, store, req, arg, ctx) ==
  [op |-> op, store |-> store, req |-> req, arg |-> arg, ctx |-> ctx]

\* Transactions on one store run in the order they were created; a
\* transaction can finish when no older one is on its store.
CanFinish(i) ==
  /\ i \in 1..Len(inflight)
  /\ \A j \in 1..(i - 1) : inflight[j].store # inflight[i].store

RemoveAt(seq, i) == SubSeq(seq, 1, i - 1) \o SubSeq(seq, i + 1, Len(seq))

\* the store a finished request leaves
applyRequest(db, tx) ==
  IF tx.req = "put" THEN storePut(db, tx.arg.key, tx.arg.data)
  ELSE IF tx.req = "delete" THEN storeDelete(db, tx.arg.key)
  ELSE db

PutArg(key, data) == [key |-> key, data |-> data]
KeyArg(key) == [key |-> key]

(***************************************************************************)
(* Array helpers of the handlers.                                          *)
(***************************************************************************)
\* notes.find(note => note.id === id)
findNote(ns, id) ==
  IF \E i \in 1..Len(ns) : ns[i].id = id
  THEN ns[CHOOSE i \in 1..Len(ns) : ns[i].id = id /\ \A j \in 1..(i - 1) : ns[j].id # id]
  ELSE NULL

\* prevNotes.map(note => note.id === id ? updatedNote : note)
replaceNote(ns, id, updatedNote) ==
  [i \in 1..Len(ns) |-> IF ns[i].id = id THEN updatedNote ELSE ns[i]]

\* prevNotes.filter(note => note.id !== id)
removeNote(ns, id) ==
  LET keep(n) == n.id # id IN SelectSeq(ns, keep)

\* notes.filter(note => note.isPinned).length
pinnedCount(ns) == Cardinality({i \in 1..Len(ns) : ns[i].isPinned})

\* categories.find(cat => cat.name === name)?.color || '#CCCCCC'
categoryColor(cats, name) ==
  IF \E i \in 1..Len(cats) : cats[i].name = name
  THEN LET first == CHOOSE i \in 1..Len(cats) :
                      cats[i].name = name /\ \A j \in 1..(i - 1) : cats[j].name # name
       IN IF cats[first].color # "" THEN cats[first].color ELSE "#CCCCCC"
  ELSE "#CCCCCC"

\* tags.filter(tag => tag.trim() !== '').map(tag => tag.trim())
cleanTags(tags) ==
  LET keep(t) == trim(t) # EmptyStr
      kept == SelectSeq(tags, keep)
  IN [i \in 1..Len(kept) |-> trim(kept[i])]

RECURSIVE allTagsNoSet(_)
\* a set-up of the tags as a plausible slip would write it: every tag pushed
allTagsNoSet(ns) ==
  IF ns = <<>> THEN <<>>
  ELSE allTagsNoSet(SubSeq(ns, 1, Len(ns) - 1)) \o ns[Len(ns)].tags

RECURSIVE addAll(_, _)
RECURSIVE allTagsEffect(_)
\* new Set<string>() filled by notes.forEach(note => note.tags.forEach(tag =>
\* tags.add(tag))), then Array.from(tags): the tags in the order they are met
\* first
addAll(seen, tags) ==
  IF tags = <<>> THEN seen
  ELSE addAll(IF \E i \in 1..Len(seen) : seen[i] = Head(tags)
              THEN seen ELSE Append(seen, Head(tags)), Tail(tags))

allTagsEffect(ns) ==
  IF ns = <<>> THEN <<>>
  ELSE addAll(allTagsEffect(SubSeq(ns, 1, Len(ns) - 1)), ns[Len(ns)].tags)

\* the render that follows a step: the view, and the effect on notes
Rerender ==
  /\ view' = filteredNotes(notes', selectedCategory', searchTerm', showArchived', sortBy')
  /\ allTags' = allTagsEffect(notes')

\* the ids of the notes shown, whose buttons can be clicked
shownIds == {view[i].id : i \in 1..Len(view)}

(***************************************************************************)
(* Inputs of the model: what the user types, picks and uploads.            *)
(***************************************************************************)
\* the add form as the user can have filled it
NewNoteForms ==
  { [emptyNewNote EXCEPT !.title = t, !.content = c, !.category = k] :
      t \in {EmptyStr, Str("a")}, c \in {EmptyStr, Str("b")}, k \in {"", "Work"} }

\* e.target.value.split(',') of the tags inputs: " a," and ""
TagInputs == { << <<" ", "a">>, EmptyStr >>, << EmptyStr >> }

\* titles typed into the edit dialog
EditTitles == { Str("B") }

\* the category form as the user can have filled it
NewCategoryForms ==
  { Category(n, c) : n \in {"", "Extra", "Work"}, c \in {"#000000"} }

\* JSON values of an import file's notes and categories properties
Missing == [kind |-> "missing", items |-> <<>>]
Scalar == [kind |-> "scalar", items |-> <<>>]
Array(items) == [kind |-> "array", items |-> items]

JsonFile(ns, cs) == [parses |-> TRUE, notes |-> ns, categories |-> cs]
GarbageFile == [parses |-> FALSE, notes |-> Missing, categories |-> Missing]

\* a note as a backup file written elsewhere can hold it
FileNote(id, title, pinned) ==
  [Note(id, title, Str("c"), "Extra", "#000000", IsoString(5), IsoString(6), "", <<>>)
     EXCEPT !.isPinned = pinned]

\* hand-made files: one that replaces note 1, brings note 20 twice and
\* two categories; files with a property missing or not iterable
MergeFile ==
  JsonFile(Array(<< FileNote(1, Str("n"), TRUE), FileNote(20, Str("g"), FALSE),
                    FileNote(20, Str("t"), TRUE) >>),
           Array(<< Category("Work", "#111111"), Category("Extra", "#222222") >>))

BrokenFiles ==
  { GarbageFile,
    JsonFile(Array(<< FileNote(20, Str("t"), TRUE) >>), Missing),
    JsonFile(Missing, Array(<< Category("Extra", "#222222") >>)),
    JsonFile(Scalar, Array(<< Category("Extra", "#222222") >>)),
    JsonFile(Array(<< FileNote(20, Str("t"), TRUE) >>), Scalar) }

\* a file that brings two pinned notes and no category
PinFile ==
  JsonFile(Array(<< FileNote(20, Str("g"), TRUE), FileNote(21, Str("t"), TRUE) >>),
           Array(<<>>))

\* the files the user can pick: hand-made ones and the last export
ImportFiles ==
  {MergeFile, PinFile} \cup BrokenFiles
    \cup (IF exportFile = NULL THEN {} ELSE {exportFile})

(***************************************************************************)
(* Groups of variables.                                                    *)
(***************************************************************************)
formVars == <<newNote, isAddingNote, newCategory>>
filterVars == <<selectedCategory, searchTerm, showArchived, sortBy>>
storeVars == <<dbNotes, dbCategories>>

\* a step of the user interface alone: no storage request, no toast
histVars == <<importBase, deletedIds>>

Quiet ==
  /\ toasts' = <<>>
  /\ UNCHANGED <<storeVars, inflight, now, exportFile, failures, ops, histVars>>

\* a handler that creates a transaction and returns to the event loop
Start(tx) ==
  /\ Len(inflight) < MaxInflight
  /\ ops < MaxOps
  /\ ops' = ops + 1
  /\ inflight' = Append(inflight, tx)
  /\ toasts' = <<>>
  /\ UNCHANGED <<storeVars, now, exportFile, failures, deletedIds>>

\* a handler that ends at once with a toast
Refuse(toast) ==
  /\ toasts' = <<toast>>
  /\ UNCHANGED <<storeVars, inflight, now, exportFile, failures, ops, deletedIds>>

(***************************************************************************)
(* Steps of the clock and of the controls.                                 *)
(***************************************************************************)
Tick ==
  /\ now < StartClock + MaxTicks
  /\ now' = now + 1
  /\ toasts' = <<>>
  /\ UNCHANGED <<notes, categories, editingNote, formVars, filterVars, view, allTags,
                 storeVars, inflight, exportFile, failures, ops, histVars>>

\* the render after a control of the view changed: the memo is computed anew
RenderMemo ==
  LET r == useMemoFilteredNotes(notes, selectedCategory', searchTerm',
                                showArchived', sortBy')
  IN notes' = r.source /\ view' = r.result /\ allTags' = allTags

SetSearchTerm(term) ==
  /\ searchTerm' = term
  /\ UNCHANGED <<selectedCategory, showArchived, sortBy>>
  /\ RenderMemo /\ Quiet
  /\ UNCHANGED <<categories, editingNote, formVars>>

SetSelectedCategory(cat) ==
  /\ selectedCategory' = cat
  /\ UNCHANGED <<searchTerm, showArchived, sortBy>>
  /\ RenderMemo /\ Quiet
  /\ UNCHANGED <<categories, editingNote, formVars>>

SetSortBy(by) ==
  /\ sortBy' = by
  /\ UNCHANGED <<selectedCategory, searchTerm, showArchived>>
  /\ RenderMemo /\ Quiet
  /\ UNCHANGED <<categories, editingNote, formVars>>

SetShowArchived(b) ==
  /\ showArchived' = b
  /\ UNCHANGED <<selectedCategory, searchTerm, sortBy>>
  /\ RenderMemo /\ Quiet
  /\ UNCHANGED <<categories, editingNote, formVars>>

\* the inputs of the add dialog: setNewNote({ ...newNote, ... })
SetNewNote(form) ==
  /\ newNote' = [form EXCEPT !.tags = newNote.tags, !.image = newNote.image]
  /\ newNote' # newNote
  /\ Quiet
  /\ UNCHANGED <<notes, categories, editingNote, isAddingNote, newCategory,
                 filterVars, view, allTags>>

SetIsAddingNote(b) ==
  /\ isAddingNote' = b
  /\ isAddingNote' # isAddingNote
  /\ Quiet
  /\ UNCHANGED <<notes, categories, editingNote, newNote, newCategory,
                 filterVars, view, allTags>>

\* the edit button of a shown note: setEditingNote(note)
SetEditingNote(i) ==
  /\ i \in 1..Len(view)
  /\ editingNote' = view[i]
  /\ Quiet
  /\ UNCHANGED <<notes, categories, formVars, filterVars, view, allTags>>

\* the edit dialog closed: setEditingNote(null)
CloseEditDialog ==
  /\ editingNote # NULL
  /\ editingNote' = NULL
  /\ Quiet
  /\ UNCHANGED <<notes, categories, formVars, filterVars, view, allTags>>

\* the title input of the edit dialog: setEditingNote({ ...editingNote, title })
EditTitle(title) ==
  /\ editingNote # NULL
  /\ editingNote' = [editingNote EXCEPT !.title = title]
  /\ editingNote' # editingNote
  /\ Quiet
  /\ UNCHANGED <<notes, categories, formVars, filterVars, view, allTags>>

\* the inputs of the category form
SetNewCategory(form) ==
  /\ newCategory' = form
  /\ newCategory' # newCategory
  /\ Quiet
  /\ UNCHANGED <<notes, categories, editingNote, newNote, isAddingNote,
                 filterVars, view, allTags>>

(***************************************************************************)
(* The handlers up to their first await.                                   *)
(***************************************************************************)
memVars == <<notes, categories, editingNote, formVars, filterVars, view, allTags>>
\* what a handler other than importNotes leaves alone when it is called
calmVars == <<memVars, importBase>>

\* the note of addNote as a plausible slip would build it: the colour of
\* the form, which the spread of newNote brings, not overwritten
newNoteWithFormColor ==
  [id |-> now, title |-> newNote.title, content |-> newNote.content,
   category |-> newNote.category, color |-> newNote.color,
   createdAt |-> DateOf(now), updatedAt |-> DateOf(now),
   image |-> newNote.image, isPinned |-> FALSE, isArchived |-> FALSE,
   tags |-> newNote.tags]

\* addNote: the note it builds
newNoteWithId ==
  [id |-> now, title |-> newNote.title, content |-> newNote.content,
   category |-> newNote.category,
   color |-> categoryColor(categories, newNote.category),
   createdAt |-> DateOf(now), updatedAt |-> DateOf(now),
   image |-> newNote.image, isPinned |-> FALSE, isArchived |-> FALSE,
   tags |-> newNote.tags]

\* addNote as a plausible slip would write it: the category not required
AddNoteCategoryUnchecked ==
  /\ IF newNote.title # EmptyStr /\ newNote.content # EmptyStr
     THEN /\ Len(notes) < MaxNotes
          /\ Start(Tx("addNote", "notes", "put", PutArg(now, newNoteWithId), NULL))
     ELSE Refuse(Toast("error", "requiredFields"))
  /\ UNCHANGED calmVars

AddNote ==
  /\ IF newNote.title # EmptyStr /\ newNote.content # EmptyStr /\ newNote.category # ""
     THEN /\ Len(notes) < MaxNotes
          /\ Start(Tx("addNote", "notes", "put", PutArg(now, newNoteWithId), NULL))
     ELSE Refuse(Toast("error", "requiredFields"))
  /\ UNCHANGED calmVars

\* updateNote as a plausible slip would write it: both dates set anew
UpdateNoteBothDates ==
  /\ IF editingNote # NULL
     THEN LET updatedNote == [editingNote EXCEPT !.updatedAt = DateOf(now),
                                                 !.createdAt = DateOf(now)]
          IN Start(Tx("updateNote", "notes", "put",
                      PutArg(updatedNote.id, updatedNote), [id |-> editingNote.id]))
     ELSE Quiet
  /\ UNCHANGED calmVars

UpdateNote ==
  /\ IF editingNote # NULL
     THEN LET updatedNote == [editingNote EXCEPT !.updatedAt = DateOf(now)]
          IN Start(Tx("updateNote", "notes", "put",
                      PutArg(updatedNote.id, updatedNote), [id |-> editingNote.id]))
     ELSE Quiet
  /\ UNCHANGED calmVars

\* the bin of a shown note, or Delete Note of the edit dialog
DeleteNote(id) ==
  /\ id \in shownIds \cup (IF editingNote = NULL THEN {} ELSE {editingNote.id})
  /\ Start(Tx("deleteNote", "notes", "delete", KeyArg(id), [id |-> id]))
  /\ UNCHANGED calmVars

\* the limit of 'You can only pin up to 3 notes'
PinLimit == 3

\* a limit as a plausible slip would write it: one pin too many allowed
pinLimitReachedOffByOne(ns) == pinnedCount(ns) > PinLimit

\* pinnedNotes >= 3
pinLimitReached(ns) == pinnedCount(ns) >= PinLimit

TogglePinNote(id) ==
  /\ id \in shownIds
  /\ LET noteToToggle == findNote(notes, id)
     IN IF noteToToggle = NULL THEN Quiet
        ELSE IF ~noteToToggle.isPinned /\ pinLimitReached(notes)
        THEN Refuse(Toast("error", "pinLimit"))
        ELSE LET updatedNote == [noteToToggle EXCEPT !.isPinned = ~noteToToggle.isPinned]
             IN Start(Tx("togglePinNote", "notes", "put",
                         PutArg(updatedNote.id, updatedNote), [id |-> id]))
  /\ UNCHANGED calmVars

ToggleArchiveNote(id) ==
  /\ id \in shownIds
  /\ LET noteToToggle == findNote(notes, id)
     IN IF noteToToggle = NULL THEN Quiet
        ELSE LET updatedNote == [noteToToggle EXCEPT !.isArchived = ~noteToToggle.isArchived]
             IN Start(Tx("toggleArchiveNote", "notes", "put",
                         PutArg(updatedNote.id, updatedNote), [id |-> id]))
  /\ UNCHANGED calmVars

\* the tags input of the edit dialog: handleTagChange(tags, editingNote.id)
HandleTagChange(tags) ==
  /\ editingNote # NULL
  /\ LET noteToUpdate == findNote(notes, editingNote.id)
     IN IF noteToUpdate = NULL THEN Quiet
        ELSE LET updatedNote == [noteToUpdate EXCEPT !.tags = cleanTags(tags)]
             IN Start(Tx("handleTagChange", "notes", "put",
                         PutArg(updatedNote.id, updatedNote), [id |-> editingNote.id]))
  /\ UNCHANGED calmVars

\* the tags input of the add dialog: handleTagChange(tags)
HandleTagChangeNew(tags) ==
  /\ newNote' = [newNote EXCEPT !.tags = cleanTags(tags)]
  /\ newNote' # newNote
  /\ Quiet
  /\ UNCHANGED <<notes, categories, editingNote, isAddingNote, newCategory,
                 filterVars, view, allTags>>

AddCategory ==
  /\ IF newCategory.name # "" /\ newCategory.color # ""
     THEN Start(Tx("addCategory", "categories", "put",
                   PutArg(newCategory.name, newCategory), NULL))
     ELSE Refuse(Toast("error", "categoryFields"))
  /\ UNCHANGED calmVars

\* the bin of a listed category
DeleteCategory(name) ==
  /\ \E i \in 1..Len(categories) : categories[i].name = name
  /\ Start(Tx("deleteCategory", "categories", "delete", KeyArg(name), [name |-> name]))
  /\ UNCHANGED calmVars

ExportNotes ==
  /\ Start(Tx("exportGetNotes", "notes", "getAll", NULL, NULL))
  /\ UNCHANGED calmVars

(***************************************************************************)
(* exportNotes and importNotes: the file and the walk through it.          *)
(***************************************************************************)
\* JSON.stringify of a stored note: its dates become ISO strings
noteToJSON(n) ==
  [n EXCEPT !.createdAt = dateToJSON(@), !.updatedAt = dateToJSON(@)]

\* JSON.stringify({ notes, categories }), as JSON.parse reads it back
stringifyExport(ns, cs) ==
  JsonFile(Array([i \in 1..Len(ns) |-> noteToJSON(ns[i])]), Array(cs))

\* an import as a plausible slip would write it: the dates left as strings
importedNoteKeepStrings(n) == n

\* { ...note, createdAt: new Date(note.createdAt), updatedAt: new Date(note.updatedAt) }
importedNote(n) ==
  [n EXCEPT !.createdAt = newDate(@), !.updatedAt = newDate(@)]

\* The next request of the two for-loops and of what follows them, given the
\* notes and the categories property still to be walked; NULL when the loop
\* over the categories throws (the property is not iterable).
importNext(ns, cs) ==
  IF ns # <<>>
  THEN Tx("importNote", "notes", "put",
          PutArg(Head(ns).id, importedNote(Head(ns))),
          [notes |-> Tail(ns), categories |-> cs])
  ELSE IF cs.kind # "array" THEN NULL
  ELSE IF cs.items # <<>>
  THEN Tx("importCategory", "categories", "put",
          PutArg(Head(cs.items).name, Head(cs.items)),
          [notes |-> <<>>, categories |-> Array(Tail(cs.items))])
  ELSE Tx("importGetNotes", "notes", "getAll", NULL, NULL)

importFailed == Toast("error", "importFailed")

\* reader.onload of importNotes, up to its first await
ImportNotes(file) ==
  /\ file \in ImportFiles
  /\ IF \/ ~file.parses
        \/ file.notes.kind = "missing" \/ file.categories.kind = "missing"
        \/ file.notes.kind # "array"
        \/ importNext(file.notes.items, file.categories) = NULL
     THEN Refuse(importFailed)
     ELSE Start(importNext(file.notes.items, file.categories))
  /\ importBase' = [file |-> file, dbNotes |-> dbNotes, dbCategories |-> dbCategories,
                    notes |-> notes, categories |-> categories]
  /\ UNCHANGED memVars

(***************************************************************************)
(* The handlers from the end of a storage request on.                      *)
(***************************************************************************)
\* request.onsuccess of transaction i: the store after it
Settle(i) ==
  /\ CanFinish(i)
  /\ dbNotes' = IF inflight[i].store = "notes"
                THEN applyRequest(dbNotes, inflight[i]) ELSE dbNotes
  /\ dbCategories' = IF inflight[i].store = "categories"
                     THEN applyRequest(dbCategories, inflight[i]) ELSE dbCategories
  /\ UNCHANGED <<now, failures, ops, importBase>>

\* the handler of transaction i is over
Over(i) == inflight' = RemoveAt(inflight, i)
\* the handler of transaction i goes on to its next request
Then(i, tx) == inflight' = Append(RemoveAt(inflight, i), tx)

AddNoteDone(i) ==
  /\ Settle(i) /\ inflight[i].op = "addNote" /\ Over(i)
  /\ notes' = Append(notes, inflight[i].arg.data)
  /\ newNote' = emptyNewNote
  /\ isAddingNote' = FALSE
  /\ toasts' = <<Toast("success", "noteAdded")>>
  /\ UNCHANGED <<categories, editingNote, newCategory, filterVars, exportFile, deletedIds>>
  /\ Rerender

UpdateNoteDone(i) ==
  /\ Settle(i) /\ inflight[i].op = "updateNote" /\ Over(i)
  /\ notes' = replaceNote(notes, inflight[i].ctx.id, inflight[i].arg.data)
  /\ editingNote' = NULL
  /\ toasts' = <<Toast("success", "noteUpdated")>>
  /\ UNCHANGED <<categories, formVars, filterVars, exportFile, deletedIds>>
  /\ Rerender

DeleteNoteDone(i) ==
  /\ Settle(i) /\ inflight[i].op = "deleteNote" /\ Over(i)
  /\ notes' = removeNote(notes, inflight[i].ctx.id)
  /\ toasts' = <<Toast("info", "noteDeleted")>>
  /\ deletedIds' = deletedIds \cup {inflight[i].ctx.id}
  /\ UNCHANGED <<categories, editingNote, formVars, filterVars, exportFile>>
  /\ Rerender

TogglePinNoteDone(i) ==
  /\ Settle(i) /\ inflight[i].op = "togglePinNote" /\ Over(i)
  /\ notes' = replaceNote(notes, inflight[i].ctx.id, inflight[i].arg.data)
  /\ toasts' = IF inflight[i].arg.data.isPinned
               THEN <<Toast("success", "notePinned")>>
               ELSE <<Toast("info", "noteUnpinned")>>
  /\ UNCHANGED <<categories, editingNote, formVars, filterVars, exportFile, deletedIds>>
  /\ Rerender

ToggleArchiveNoteDone(i) ==
  /\ Settle(i) /\ inflight[i].op = "toggleArchiveNote" /\ Over(i)
  /\ notes' = replaceNote(notes, inflight[i].ctx.id, inflight[i].arg.data)
  /\ toasts' = IF inflight[i].arg.data.isArchived
               THEN <<Toast("success", "noteArchived")>>
               ELSE <<Toast("info", "noteUnarchived")>>
  /\ UNCHANGED <<categories, editingNote, formVars, filterVars, exportFile, deletedIds>>
  /\ Rerender

HandleTagChangeDone(i) ==
  /\ Settle(i) /\ inflight[i].op = "handleTagChange" /\ Over(i)
  /\ notes' = replaceNote(notes, inflight[i].ctx.id, inflight[i].arg.data)
  /\ toasts' = <<Toast("success", "tagsUpdated")>>
  /\ UNCHANGED <<categories, editingNote, formVars, filterVars, exportFile, deletedIds>>
  /\ Rerender

AddCategoryDone(i) ==
  /\ Settle(i) /\ inflight[i].op = "addCategory" /\ Over(i)
  /\ categories' = Append(categories, inflight[i].arg.data)
  /\ newCategory' = emptyNewCategory
  /\ toasts' = <<Toast("success", "categoryAdded")>>
  /\ UNCHANGED <<notes, editingNote, newNote, isAddingNote, filterVars, exportFile, deletedIds>>
  /\ Rerender

\* deleteCategory's continuation as a plausible slip would write it: the
\* colour of the deleted category taken from its notes as well
DeleteCategoryDoneResetsColor(i) ==
  /\ Settle(i) /\ inflight[i].op = "deleteCategory" /\ Over(i)
  /\ LET name == inflight[i].ctx.name
         keep(cat) == cat.name # name
     IN /\ categories' = SelectSeq(categories, keep)
        /\ notes' = [k \in 1..Len(notes) |->
                       IF notes[k].category = name
                       THEN [notes[k] EXCEPT !.category = "Uncategorized",
                                             !.color = "#CCCCCC"]
                       ELSE notes[k]]
  /\ toasts' = <<Toast("success", "categoryDeleted")>>
  /\ UNCHANGED <<editingNote, formVars, filterVars, exportFile, deletedIds>>
  /\ Rerender

DeleteCategoryDone(i) ==
  /\ Settle(i) /\ inflight[i].op = "deleteCategory" /\ Over(i)
  /\ LET name == inflight[i].ctx.name
         keep(cat) == cat.name # name
     IN /\ categories' = SelectSeq(categories, keep)
        /\ notes' = [k \in 1..Len(notes) |->
                       IF notes[k].category = name
                       THEN [notes[k] EXCEPT !.category = "Uncategorized"]
                       ELSE notes[k]]
  /\ toasts' = <<Toast("success", "categoryDeleted")>>
  /\ UNCHANGED <<editingNote, formVars, filterVars, exportFile, deletedIds>>
  /\ Rerender

ExportGetNotesDone(i) ==
  /\ Settle(i) /\ inflight[i].op = "exportGetNotes"
  /\ Then(i, Tx("exportGetCategories", "categories", "getAll", NULL,
                [notesToExport |-> getAllNotes(dbNotes)]))
  /\ toasts' = <<>>
  /\ UNCHANGED <<memVars, exportFile, deletedIds>>

ExportGetCategoriesDone(i) ==
  /\ Settle(i) /\ inflight[i].op = "exportGetCategories" /\ Over(i)
  /\ exportFile' = stringifyExport(inflight[i].ctx.notesToExport,
                                   getAllCategories(dbCategories))
  /\ toasts' = <<Toast("success", "exported")>>
  /\ UNCHANGED <<memVars, deletedIds>>

\* a put of one of the two for-loops has succeeded
ImportPutDone(i) ==
  /\ Settle(i) /\ inflight[i].op \in {"importNote", "importCategory"}
  /\ LET next == importNext(inflight[i].ctx.notes, inflight[i].ctx.categories)
     IN IF next = NULL
        THEN Over(i) /\ toasts' = <<importFailed>>
        ELSE Then(i, next) /\ toasts' = <<>>
  /\ UNCHANGED <<memVars, exportFile, deletedIds>>

ImportGetNotesDone(i) ==
  /\ Settle(i) /\ inflight[i].op = "importGetNotes"
  /\ Then(i, Tx("importGetCategories", "categories", "getAll", NULL,
                [updatedNotes |-> getAllNotes(dbNotes)]))
  /\ toasts' = <<>>
  /\ UNCHANGED <<memVars, exportFile, deletedIds>>

ImportGetCategoriesDone(i) ==
  /\ Settle(i) /\ inflight[i].op = "importGetCategories" /\ Over(i)
  /\ LET updatedNotes == inflight[i].ctx.updatedNotes
     IN notes' = [k \in 1..Len(updatedNotes) |-> importedNote(updatedNotes[k])]
  /\ categories' = getAllCategories(dbCategories)
  /\ toasts' = <<Toast("success", "imported")>>
  /\ UNCHANGED <<editingNote, formVars, filterVars, exportFile, deletedIds>>
  /\ Rerender

(***************************************************************************)
(* initializeData.                                                         *)
(***************************************************************************)
\* items.forEach(item => saveToIndexedDB(store, item)): one transaction per
\* item, created together and awaited by nobody
Seed(op, store, items) ==
  Tx(op, store, "put",
     PutArg(IF store = "notes" THEN Head(items).id ELSE Head(items).name, Head(items)),
     [items |-> Tail(items)])

InitGetNotesDone(i) ==
  /\ Settle(i) /\ inflight[i].op = "initGetNotes"
  /\ Then(i, Tx("initGetCategories", "categories", "getAll", NULL,
                [savedNotes |-> getAllNotes(dbNotes)]))
  /\ toasts' = <<>>
  /\ UNCHANGED <<memVars, exportFile, deletedIds>>

\* initializeData as a plausible slip would write it: the welcome notes set
\* and saved whatever the store held
InitGetCategoriesDoneAlwaysSeeds(i) ==
  /\ Settle(i) /\ inflight[i].op = "initGetCategories"
  /\ LET savedCategories == getAllCategories(dbCategories)
         seedCategories == IF Len(savedCategories) > 0 THEN <<>>
                           ELSE <<Seed("seedCategories", "categories", initialCategories)>>
     IN /\ notes' = welcomeNotes(now)
        /\ categories' = IF Len(savedCategories) > 0 THEN savedCategories ELSE categories
        /\ inflight' = RemoveAt(inflight, i)
                         \o <<Seed("seedNotes", "notes", welcomeNotes(now))>> \o seedCategories
  /\ toasts' = <<>>
  /\ UNCHANGED <<editingNote, formVars, filterVars, exportFile, deletedIds>>
  /\ Rerender

InitGetCategoriesDone(i) ==
  /\ Settle(i) /\ inflight[i].op = "initGetCategories"
  /\ LET savedNotes == inflight[i].ctx.savedNotes
         savedCategories == getAllCategories(dbCategories)
         seedNotes == IF Len(savedNotes) > 0 THEN <<>>
                      ELSE <<Seed("seedNotes", "notes", welcomeNotes(now))>>
         seedCategories == IF Len(savedCategories) > 0 THEN <<>>
                           ELSE <<Seed("seedCategories", "categories", initialCategories)>>
     IN /\ notes' = IF Len(savedNotes) > 0
                    THEN [k \in 1..Len(savedNotes) |-> importedNote(savedNotes[k])]
                    ELSE welcomeNotes(now)
        /\ categories' = IF Len(savedCategories) > 0 THEN savedCategories ELSE categories
        /\ inflight' = RemoveAt(inflight, i) \o seedNotes \o seedCategories
  /\ toasts' = <<>>
  /\ UNCHANGED <<editingNote, formVars, filterVars, exportFile, deletedIds>>
  /\ Rerender

\* the transaction of the next item takes the place of the finished one
SeedNext(i) ==
  inflight' = IF inflight[i].ctx.items = <<>> THEN RemoveAt(inflight, i)
              ELSE [inflight EXCEPT ![i] = Seed(inflight[i].op, inflight[i].store,
                                                inflight[i].ctx.items)]

SeedDone(i) ==
  /\ Settle(i) /\ inflight[i].op \in {"seedNotes", "seedCategories"}
  /\ SeedNext(i)
  /\ toasts' = <<>>
  /\ UNCHANGED <<memVars, exportFile, deletedIds>>

(***************************************************************************)
(* request.onerror: the promise of transaction i is rejected.  Only        *)
(* importNotes catches it; in every other handler the rejection ends the    *)
(* handler where it awaits.                                                *)
(***************************************************************************)
RequestRejected(i) ==
  /\ CanFinish(i)
  /\ failures < MaxFailures
  /\ failures' = failures + 1
  /\ IF inflight[i].op \in {"seedNotes", "seedCategories"} THEN SeedNext(i) ELSE Over(i)
  /\ toasts' = IF inflight[i].op \in {"importNote", "importCategory",
                                      "importGetNotes", "importGetCategories"}
               THEN <<importFailed>> ELSE <<>>
  /\ UNCHANGED <<memVars, storeVars, now, exportFile, ops, histVars>>

(***************************************************************************)
(* The component after it is mounted: the state of the useState calls, the *)
(* store as an earlier session left it, and initializeData at its first    *)
(* request.                                                                *)
(***************************************************************************)
\* what an earlier session can have left in the store: nothing at all, or
\* one pinned note and the initial categories
savedNote ==
  [Note(2, Str("G"), Str("C"), "To-Do", "#FF33F5", DateOf(5), DateOf(6), "absent", <<Str("t")>>)
     EXCEPT !.isPinned = TRUE]

InitialStores ==
  { [notes |-> emptyStore, categories |-> emptyStore],
    [notes |-> storePut(emptyStore, 2, savedNote),
     categories |-> [k \in {initialCategories[i].name : i \in 1..Len(initialCategories)} |->
                       initialCategories[CHOOSE i \in 1..Len(initialCategories) :
                                           initialCategories[i].name = k]]] }

InitMemory ==
  /\ categories = initialCategories
  /\ editingNote = NULL
  /\ newNote = emptyNewNote
  /\ isAddingNote = FALSE
  /\ newCategory = emptyNewCategory
  /\ selectedCategory = "All"
  /\ searchTerm = EmptyStr
  /\ showArchived = FALSE
  /\ sortBy = "updatedAt"
  /\ now = StartClock
  /\ toasts = <<>>
  /\ exportFile = NULL
  /\ failures = 0
  /\ ops = 0
  /\ importBase = NULL
  /\ deletedIds = {}

Init ==
  /\ InitMemory
  /\ notes = <<>>
  /\ view = <<>>
  /\ allTags = <<>>
  /\ \E s \in InitialStores : dbNotes = s.notes /\ dbCategories = s.categories
  /\ inflight = <<Tx("initGetNotes", "notes", "getAll", NULL, NULL)>>

InitDone(i) ==
  \/ InitGetNotesDone(i) \/ InitGetCategoriesDone(i) \/ SeedDone(i)

ImportDone(i) ==
  \/ ImportPutDone(i) \/ ImportGetNotesDone(i) \/ ImportGetCategoriesDone(i)

ExportDone(i) ==
  \/ ExportGetNotesDone(i) \/ ExportGetCategoriesDone(i)

Finish(i) ==
  \/ AddNoteDone(i) \/ UpdateNoteDone(i) \/ DeleteNoteDone(i)
  \/ TogglePinNoteDone(i) \/ ToggleArchiveNoteDone(i) \/ HandleTagChangeDone(i)
  \/ AddCategoryDone(i) \/ DeleteCategoryDone(i)
  \/ ExportDone(i) \/ ImportDone(i) \/ InitDone(i)
  \/ RequestRejected(i)

NoteIds == {1, 2, 3, 20, 21} \cup (StartClock..(StartClock + MaxTicks))

(***************************************************************************)
(* The whole component: every control, every handler.                      *)
(***************************************************************************)
Next ==
  \/ Tick
  \/ \E b \in BOOLEAN : SetShowArchived(b)
  \/ \E term \in {EmptyStr, Str("B")} : SetSearchTerm(term)
  \/ \E cat \in {"All", "Work", "Personal"} : SetSelectedCategory(cat)
  \/ \E by \in {"updatedAt", "createdAt", "title"} : SetSortBy(by)
  \/ \E form \in NewNoteForms : SetNewNote(form)
  \/ \E b \in BOOLEAN : SetIsAddingNote(b)
  \/ \E i \in 1..Len(view) : SetEditingNote(i)
  \/ CloseEditDialog
  \/ \E title \in EditTitles : EditTitle(title)
  \/ \E form \in NewCategoryForms : SetNewCategory(form)
  \/ \E tags \in TagInputs : HandleTagChangeNew(tags)
  \/ AddNote
  \/ UpdateNote
  \/ \E id \in NoteIds : DeleteNote(id)
  \/ \E id \in NoteIds : TogglePinNote(id)
  \/ \E id \in NoteIds : ToggleArchiveNote(id)
  \/ \E tags \in TagInputs : HandleTagChange(tags)
  \/ AddCategory
  \/ \E i \in 1..Len(categories) : DeleteCategory(categories[i].name)
  \/ ExportNotes
  \/ \E file \in ImportFiles : ImportNotes(file)
  \/ \E i \in 1..Len(inflight) : Finish(i)

Spec == Init /\ [][Next]_vars

(***************************************************************************)
(* Pinning: the user pins and unpins the welcome notes, archives the first *)
(* and imports a file of pinned notes.                                     *)
(***************************************************************************)
NextPins ==
  \/ \E id \in {1, 2, 3} : TogglePinNote(id)
  \/ ToggleArchiveNote(1)
  \/ ImportNotes(PinFile)
  \/ \E i \in 1..Len(inflight) :
       \/ InitDone(i) \/ ImportDone(i)
       \/ TogglePinNoteDone(i) \/ ToggleArchiveNoteDone(i)
       \/ RequestRejected(i)

SpecPins == Init /\ [][NextPins]_vars

\* the number of pinned records of the 'notes' store
pinnedInStore(db) == Cardinality({k \in DOMAIN db : db[k].isPinned})

\* C1: in every reachable state at most 3 notes are pinned, in the notes list
\* and in the 'notes' store alike.
PinLimitKept ==
  /\ pinnedCount(notes) <= PinLimit
  /\ pinnedInStore(dbNotes) <= PinLimit

\* the request togglePinNote has just created
lastRequest == inflight'[Len(inflight')]

\* C2: togglePinNote on an unpinned note while 3 or more notes are pinned
\* (hidden ones counted) raises the error toast, creates no request and leaves
\* the notes and the stores alone; togglePinNote on a pinned note asks the
\* store for the unpinned record whatever the count is, and when that request
\* succeeds the store and the list hold the note unpinned.
TogglePinRejectedAtLimit ==
  [][/\ \A id \in {1, 2, 3} :
          TogglePinNote(id) /\ findNote(notes, id) # NULL =>
            /\ ~findNote(notes, id).isPinned /\ pinnedCount(notes) >= PinLimit =>
                 /\ toasts' = <<Toast("error", "pinLimit")>>
                 /\ UNCHANGED <<notes, dbNotes, dbCategories, inflight>>
            /\ findNote(notes, id).isPinned =>
                 /\ Len(inflight') = Len(inflight) + 1
                 /\ lastRequest.req = "put" /\ lastRequest.store = "notes"
                 /\ lastRequest.arg.key = id
                 /\ lastRequest.arg.data = [findNote(notes, id) EXCEPT !.isPinned = FALSE]
     /\ \A i \in 1..Len(inflight) :
          TogglePinNoteDone(i) /\ ~inflight[i].arg.data.isPinned =>
            /\ dbNotes'[inflight[i].ctx.id] = inflight[i].arg.data
            /\ \A k \in 1..Len(notes') :
                 notes'[k].id = inflight[i].ctx.id => ~notes'[k].isPinned
    ]_vars

\* a rejected pin while a pinned note is archived, hence hidden
TogglePinRejectedSeen ==
  /\ toasts = <<Toast("error", "pinLimit")>>
  /\ pinnedCount(notes) >= PinLimit
  /\ \E k \in 1..Len(notes) : notes[k].isPinned /\ notes[k].isArchived
  /\ \E k \in 1..Len(notes) : ~notes[k].isPinned /\ notes[k].id \in shownIds

(***************************************************************************)
(* The view: the controls above the list, over a notes list an earlier     *)
(* session left.  Timestamps are valid dates.                              *)
(***************************************************************************)
ViewNote(title, content, tags, category, pinned, archived, updated) ==
  [Note(0, title, content, category, categoryColor(initialCategories, category),
        DateOf(3 - updated), DateOf(updated), "absent", tags)
     EXCEPT !.isPinned = pinned, !.isArchived = archived]

\* notes that differ in what the filter reads
FilterNotes ==
  { ViewNote(t[1], t[2], t[3], w[1], FALSE, w[2], 1) :
      t \in { <<Str("a"), Str("c"), <<>> >>, <<Str("B"), Str("c"), <<>> >>,
              <<Str("a"), Str("b"), <<>> >>, <<Str("a"), Str("c"), <<Str("c"), Str("b")>> >> },
      w \in { <<"Work", FALSE>>, <<"Work", TRUE>>, <<"Personal", FALSE>> } }

\* notes that differ in what the comparator reads
SortNotes ==
  { ViewNote(Str(c), Str("c"), <<>>, "Work", p, FALSE, u) :
      c \in {"a", "B"}, p \in BOOLEAN, u \in {1, 2} }

ViewNotes == FilterNotes \cup SortNotes

noteKey(n) == n.id
categoryKey(c) == c.name

\* the key of a record under the keyPath of its store
keyOf(storeName, item) == IF storeName = "notes" THEN noteKey(item) ELSE categoryKey(item)

\* the store that holds the given notes or categories under their keys
storeOf(items, storeName) ==
  [k \in {keyOf(storeName, items[i]) : i \in 1..Len(items)} |->
     items[CHOOSE i \in 1..Len(items) : keyOf(storeName, items[i]) = k]]

InitView ==
  /\ InitMemory
  /\ \E s \in UNION {[1..n -> ViewNotes] : n \in 0..MaxViewLen} :
       notes = [i \in 1..Len(s) |-> [s[i] EXCEPT !.id = i]]
  /\ view = filteredNotes(notes, selectedCategory, searchTerm, showArchived, sortBy)
  /\ allTags = allTagsEffect(notes)
  /\ dbNotes = storeOf(notes, "notes")
  /\ dbCategories = storeOf(initialCategories, "categories")
  /\ inflight = <<>>

NextView ==
  \/ \E b \in BOOLEAN : SetShowArchived(b)
  \/ \E term \in {EmptyStr, Str("B")} : SetSearchTerm(term)
  \/ \E cat \in {"All", "Work"} : SetSelectedCategory(cat)
  \/ \E by \in {"updatedAt", "createdAt", "title"} : SetSortBy(by)

SpecView == InitView /\ [][NextView]_vars

\* the search term is found in the title, the content or a tag, letter case aside
found(term, n) ==
  LET t == toLowerCase(term)
  IN \/ includes(toLowerCase(n.title), t)
     \/ includes(toLowerCase(n.content), t)
     \/ \E i \in 1..Len(n.tags) : includes(toLowerCase(n.tags[i]), t)

\* the note passes the category and the search of the controls
wanted(n) ==
  /\ selectedCategory = "All" \/ n.category = selectedCategory
  /\ searchTerm = EmptyStr \/ found(searchTerm, n)

idsOf(ns) == {ns[i].id : i \in 1..Len(ns)}

\* C8: the view holds exactly the notes of the chosen category that the search
\* term is found in and whose archive flag is the switch's, each once; the
\* archived and the active view are disjoint and together hold the notes the
\* category and the search want.
ViewHoldsTheMatches ==
  /\ \A k \in 1..Len(notes) :
       Cardinality({i \in 1..Len(view) : view[i] = notes[k]}) =
         IF wanted(notes[k]) /\ notes[k].isArchived = showArchived THEN 1 ELSE 0
  /\ \A i \in 1..Len(view) : \E k \in 1..Len(notes) : notes[k] = view[i]
  /\ LET active == filteredNotes(notes, selectedCategory, searchTerm, FALSE, sortBy)
         archived == filteredNotes(notes, selectedCategory, searchTerm, TRUE, sortBy)
     IN /\ idsOf(active) \cap idsOf(archived) = {}
        /\ idsOf(active) \cup idsOf(archived) =
             {notes[k].id : k \in {j \in 1..Len(notes) : wanted(notes[j])}}
        /\ Len(active) + Len(archived) =
             Cardinality({j \in 1..Len(notes) : wanted(notes[j])})

\* a view that the category, the search and the archive switch each keep a note from
ViewFiltered ==
  /\ selectedCategory = "Work" /\ searchTerm = Str("B")
  /\ Len(view) = 1 /\ Len(notes) = 2
  /\ \E k \in 1..Len(notes) : notes[k].isArchived # showArchived

\* C9: in the view a pinned note comes before every unpinned one; two notes of
\* the same pin status are in ascending order of title when sortBy is 'title',
\* and newest first by the chosen timestamp otherwise.
ViewOrdered ==
  \A i, j \in 1..Len(view) :
    i < j =>
      /\ view[i].isPinned \/ ~view[j].isPinned
      /\ view[i].isPinned = view[j].isPinned =>
           IF sortBy = "title"
           THEN localeCompare(view[i].title, view[j].title) <= 0
           ELSE getTime(view[i][sortBy]) >= getTime(view[j][sortBy])

\* a view sorted by title after the select was changed: two notes of one pin
\* status, of different titles and dates, the second of the list shown first
ViewReordered ==
  /\ sortBy = "title"
  /\ Len(view) = 2 /\ view[1].id = 2
  /\ view[1].isPinned = view[2].isPinned
  /\ view[1].title # view[2].title
  /\ view[1].updatedAt # view[2].updatedAt

\* a render that computes the view anew: a control of the view has been set
viewComputed ==
  \/ SetSearchTerm(searchTerm') \/ SetSelectedCategory(selectedCategory')
  \/ SetSortBy(sortBy') \/ SetShowArchived(showArchived')

\* C10: computing the view leaves the notes list, its order, the fields of its
\* notes and the stores as they were and asks nothing of the store; the view
\* is the value of one function of the notes and the four controls.
ViewIsPure ==
  [][viewComputed =>
       /\ notes' = notes
       /\ UNCHANGED <<dbNotes, dbCategories, inflight>>
       /\ view' = filteredNotes(notes', selectedCategory', searchTerm',
                                showArchived', sortBy')
    ]_vars

\* a view computed anew whose order is not the list's, the list as it was
ViewComputedAnew ==
  /\ sortBy = "createdAt" /\ searchTerm = Str("B")
  /\ Len(view) = 2 /\ view[1].id = 2
  /\ Len(notes) = 2 /\ notes[1].id = 1

(***************************************************************************)
(* Backup files: the user pins and deletes, exports, and imports a file    *)
(* when nothing else is under way; nothing else is begun while an import   *)
(* runs.                                                                   *)
(***************************************************************************)
importing ==
  \E i \in 1..Len(inflight) :
    inflight[i].op \in {"importNote", "importCategory", "importGetNotes",
                        "importGetCategories"}

NextImport ==
  \/ ~importing /\ TogglePinNote(1)
  \/ ~importing /\ DeleteNote(3)
  \/ ~importing /\ ExportNotes
  \/ inflight = <<>> /\ \E file \in ImportFiles : ImportNotes(file)
  \/ \E i \in 1..Len(inflight) :
       \/ InitDone(i) \/ ImportDone(i) \/ ExportDone(i)
       \/ TogglePinNoteDone(i) \/ DeleteNoteDone(i)
       \/ RequestRejected(i)

SpecImport == Init /\ [][NextImport]_vars

imported == Toast("success", "imported")

lastOf(items, key(_), k) ==
  items[CHOOSE i \in 1..Len(items) :
          key(items[i]) = k /\ \A j \in (i + 1)..Len(items) : key(items[j]) # k]

\* the store db with the records of the file merged into it by key
mergedInto(db, items, key(_), record(_)) ==
  [k \in DOMAIN db \cup {key(items[i]) : i \in 1..Len(items)} |->
     IF \E i \in 1..Len(items) : key(items[i]) = k
     THEN record(lastOf(items, key, k)) ELSE db[k]]

\* the note of a file as the store holds it: the dates are Date objects
asStored(n) == [n EXCEPT !.createdAt = DateOf(@.ms), !.updatedAt = DateOf(@.ms)]
asIs(c) == c

\* C6: after a successful import the 'notes' store is the store from before
\* with the notes of the file merged in by id, the last of a repeated id
\* winning and every other record kept as it was; the same for 'categories'
\* by name.
ImportMergesByKey ==
  toasts = <<imported>> =>
    /\ dbNotes = mergedInto(importBase.dbNotes, importBase.file.notes.items,
                            noteKey, asStored)
    /\ dbCategories = mergedInto(importBase.dbCategories,
                                 importBase.file.categories.items, categoryKey, asIs)

\* a file with a repeated id has been merged into a store: one record
\* replaced, one added, one kept
MergeDone ==
  /\ toasts = <<imported>>
  /\ importBase.file = MergeFile
  /\ 1 \in DOMAIN importBase.dbNotes /\ dbNotes[1] # importBase.dbNotes[1]
  /\ 20 \notin DOMAIN importBase.dbNotes /\ 20 \in DOMAIN dbNotes
  /\ 2 \in DOMAIN importBase.dbNotes /\ dbNotes[2] = importBase.dbNotes[2]

\* C7: whenever importNotes reports failure the two stores, the notes and the
\* categories are as they were when the import began.
ImportAllOrNothing ==
  toasts = <<importFailed>> =>
    /\ dbNotes = importBase.dbNotes
    /\ dbCategories = importBase.dbCategories
    /\ notes = importBase.notes
    /\ categories = importBase.categories

(***************************************************************************)
(* Editing: the user opens the edit dialog of the first note shown, types, *)
(* saves, deletes, pins and archives.  No note is added or imported, so an *)
(* id once deleted is never given to a new note.                           *)
(***************************************************************************)
NextEdit ==
  \/ SetEditingNote(1)
  \/ CloseEditDialog
  \/ \E title \in EditTitles : EditTitle(title)
  \/ UpdateNote
  \/ \E tags \in TagInputs : HandleTagChange(tags)
  \/ \E id \in {1, 2} : DeleteNote(id)
  \/ TogglePinNote(1)
  \/ ToggleArchiveNote(1)
  \/ \E i \in 1..Len(inflight) :
       \/ InitDone(i)
       \/ UpdateNoteDone(i) \/ HandleTagChangeDone(i) \/ DeleteNoteDone(i)
       \/ TogglePinNoteDone(i) \/ ToggleArchiveNoteDone(i)
       \/ RequestRejected(i)

SpecEdit == Init /\ [][NextEdit]_vars

\* C4: once deleteNote(id) has completed, no record with that id is in the
\* 'notes' store or in the notes list, whatever was begun before or after.
DeletedStaysDeleted ==
  \A id \in deletedIds :
    /\ id \notin DOMAIN dbNotes
    /\ findNote(notes, id) = NULL

(***************************************************************************)
(* Categories: the user fills the category form, adds and deletes          *)
(* categories.                                                             *)
(***************************************************************************)
NextCategories ==
  \/ \E form \in NewCategoryForms : SetNewCategory(form)
  \/ AddCategory
  \/ \E name \in {"Work", "Personal", "Extra"} : DeleteCategory(name)
  \/ \E i \in 1..Len(inflight) :
       \/ InitDone(i)
       \/ AddCategoryDone(i) \/ DeleteCategoryDone(i)
       \/ RequestRejected(i)

SpecCategories == Init /\ [][NextCategories]_vars

\* what a note is to its user: the fields the dialogs and the buttons set
persisted(n) ==
  [title |-> n.title, content |-> n.content, category |-> n.category,
   tags |-> n.tags, isPinned |-> n.isPinned, isArchived |-> n.isArchived]

\* C3: whenever no handler is in flight (and no storage request has been
\* rejected), the notes list and the 'notes' store hold the same ids and, for
\* each id, the same title, content, category, tags, isPinned and isArchived.
NotesArePersisted ==
  inflight = <<>> /\ failures = 0 =>
    /\ idsOf(notes) = DOMAIN dbNotes
    /\ \A k \in 1..Len(notes) : persisted(notes[k]) = persisted(dbNotes[notes[k].id])

(***************************************************************************)
(* Tags: the user retags the notes open in the edit dialog, archives and   *)
(* deletes notes.                                                          *)
(***************************************************************************)
\* what the user types in the tags input of the edit dialog
EditTagInputs == TagInputs \cup { <<Str("t"), Str("t")>> }

NextTags ==
  \/ \E i \in {1, 2} : SetEditingNote(i)
  \/ \E tags \in EditTagInputs : HandleTagChange(tags)
  \/ \E id \in {1, 2} : DeleteNote(id)
  \/ ToggleArchiveNote(2)
  \/ \E i \in 1..Len(inflight) :
       \/ InitDone(i)
       \/ HandleTagChangeDone(i) \/ DeleteNoteDone(i) \/ ToggleArchiveNoteDone(i)
       \/ RequestRejected(i)

SpecTags == Init /\ [][NextTags]_vars

\* the tags that occur in some note of the list
tagsOf(ns) == UNION {{ns[k].tags[j] : j \in 1..Len(ns[k].tags)} : k \in 1..Len(ns)}

\* C11: after the effect on notes has run, allTags holds exactly the tags of
\* the notes in memory, archived ones included, each once; a tag no note
\* carries any more is not in it.
AllTagsAreTheTags ==
  /\ {allTags[i] : i \in 1..Len(allTags)} = tagsOf(notes)
  /\ \A i, j \in 1..Len(allTags) : allTags[i] = allTags[j] => i = j

\* the first note retagged with a tag typed twice that an archived note
\* carries too: its old tag is gone, the new one is listed once
TagsCollected ==
  /\ toasts = <<Toast("success", "tagsUpdated")>>
  /\ \E k \in 1..Len(notes) : notes[k].id = 1 /\ notes[k].tags = <<Str("t"), Str("t")>>
  /\ \E k \in 1..Len(notes) : notes[k].id = 2 /\ notes[k].isArchived
                                /\ notes[k].tags = <<Str("t")>>
  /\ allTags = <<Str("t"), Str("f")>>

(***************************************************************************)
(* Adding: the user opens and closes the add dialog, fills the form and    *)
(* adds notes.                                                             *)
(***************************************************************************)
NextAdd ==
  \/ \E form \in NewNoteForms : SetNewNote(form)
  \/ \E b \in BOOLEAN : SetIsAddingNote(b)
  \/ \E tags \in TagInputs : HandleTagChangeNew(tags)
  \/ AddNote
  \/ \E i \in 1..Len(inflight) :
       \/ InitDone(i)
       \/ AddNoteDone(i)
       \/ RequestRejected(i)

SpecAdd == Init /\ [][NextAdd]_vars

\* C12: addNote with an empty title, content or category raises the error
\* toast, creates no storage request and leaves the stores, the notes list,
\* the form and the open dialog as they are.
AddNoteRefusesEmptyFields ==
  [][AddNote /\ (newNote.title = EmptyStr \/ newNote.content = EmptyStr
                   \/ newNote.category = "") =>
       /\ toasts' = <<Toast("error", "requiredFields")>>
       /\ UNCHANGED <<notes, dbNotes, dbCategories, inflight, newNote, isAddingNote>>
    ]_vars

\* a form with title, content and tags and no category has been refused, the
\* dialog open
AddNoteRefused ==
  /\ toasts = <<Toast("error", "requiredFields")>>
  /\ isAddingNote
  /\ newNote.title # EmptyStr /\ newNote.content # EmptyStr /\ newNote.category = ""
  /\ newNote.tags # <<>>

\* C13: every rejected storage request is reported by exactly one error
\* toast, and by no success toast.
FailuresAreReported ==
  [][\A i \in 1..Len(inflight) :
       RequestRejected(i) => Len(toasts') = 1 /\ toasts'[1].kind = "error"
    ]_vars

\* the records of a getAll result under the key k, and the others
withKey(all, storeName, k) ==
  LET keep(x) == keyOf(storeName, x) = k IN SelectSeq(all, keep)
withoutKey(all, storeName, k) ==
  LET keep(x) == keyOf(storeName, x) # k IN SelectSeq(all, keep)

\* the store of the given name, before and after a step
storeBefore(storeName) == IF storeName = "notes" THEN dbNotes ELSE dbCategories
storeAfter(storeName) == IF storeName = "notes" THEN dbNotes' ELSE dbCategories'

\* C14: when a put of x succeeds, getAll of its store returns exactly one
\* record under x's key, x itself, and the records under the other keys as
\* before; when a delete of k succeeds, getAll returns no record under k and
\* the others as before, and everything as before when k was absent.
StoreIsAKeyedMap ==
  [][\A i \in 1..Len(inflight) :
       Finish(i) /\ failures' = failures =>
         LET tx == inflight[i]
             before == storeGetAll(storeBefore(tx.store), tx.store)
             after == storeGetAll(storeAfter(tx.store), tx.store)
         IN /\ tx.req = "put" =>
                 /\ withKey(after, tx.store, tx.arg.key) = <<tx.arg.data>>
                 /\ withoutKey(after, tx.store, tx.arg.key)
                      = withoutKey(before, tx.store, tx.arg.key)
            /\ tx.req = "delete" =>
                 /\ withKey(after, tx.store, tx.arg.key) = <<>>
                 /\ withoutKey(after, tx.store, tx.arg.key)
                      = withoutKey(before, tx.store, tx.arg.key)
                 /\ withKey(before, tx.store, tx.arg.key) = <<>> => after = before
            /\ tx.req = "getAll" => after = before
    ]_vars

\* a category saved under a name the store already held, and another deleted
CategoryUpserted ==
  /\ toasts = <<Toast("success", "categoryAdded")>>
  /\ "Work" \in DOMAIN dbCategories /\ dbCategories["Work"].color = "#000000"
  /\ "Personal" \notin DOMAIN dbCategories
  /\ Cardinality(DOMAIN dbCategories) = 3

\* the requests of the list that save welcome notes
seedsIn(txs) == {k \in 1..Len(txs) : txs[k].op = "seedNotes"}

\* C15: when initializeData has read its two stores, the notes list is the
\* three welcome notes (ids 1, 2, 3, unpinned, unarchived) and their puts are
\* under way if the 'notes' store was read empty, and is exactly the notes
\* read, with no put of a welcome note and the store untouched, if it was
\* not; each put of a welcome note that succeeds leaves that note in the
\* store and the next one under way.
InitSeedsOnlyAnEmptyStore ==
  [][/\ \A i \in 1..Len(inflight) :
       /\ InitGetCategoriesDone(i) =>
            LET saved == inflight[i].ctx.savedNotes
            IN IF saved = <<>>
               THEN /\ Len(notes') = 3
                    /\ \A k \in 1..3 : /\ notes'[k].id = k
                                       /\ ~notes'[k].isPinned /\ ~notes'[k].isArchived
                    /\ \E k \in seedsIn(inflight') :
                         /\ inflight'[k].arg = PutArg(1, notes'[1])
                         /\ inflight'[k].ctx.items = Tail(notes')
               ELSE /\ notes' = [k \in 1..Len(saved) |-> asStored(saved[k])]
                    /\ seedsIn(inflight') = seedsIn(inflight)
                    /\ dbNotes' = dbNotes
       /\ SeedDone(i) /\ inflight[i].op = "seedNotes" =>
            /\ dbNotes'[inflight[i].arg.key] = inflight[i].arg.data
            /\ inflight[i].ctx.items # <<>> =>
                 inflight'[i].arg.data = Head(inflight[i].ctx.items)
     /\ (\A i \in 1..Len(inflight) : ~InitGetCategoriesDone(i)) =>
          Cardinality(seedsIn(inflight')) <= Cardinality(seedsIn(inflight))
    ]_vars

\* initialisation over on a store that was empty: the three welcome notes in
\* the list and in the store
WelcomeNotesSeeded ==
  /\ inflight = <<>> /\ ops = 0 /\ failures = 0
  /\ Len(notes) = 3
  /\ DOMAIN dbNotes = {1, 2, 3}
  /\ \A k \in 1..3 : notes[k].id = k /\ dbNotes[k] = notes[k]

\* C16: Save Changes clicked with nothing in flight, for a note whose tags
\* handleTagChange has set from the tags input, asks the store for a record
\* with those tags, the trimmed non-empty entries typed; and when the request
\* of a Save Changes succeeds the list and the store hold its record.
TagsSurviveSaving ==
  [][/\ ( /\ UpdateNote /\ editingNote # NULL /\ inflight = <<>>
          /\ findNote(notes, editingNote.id) # NULL
          /\ findNote(notes, editingNote.id).tags \in {cleanTags(t) : t \in TagInputs} )
        => /\ Len(inflight') = 1
           /\ inflight'[1].arg.data.tags = findNote(notes, editingNote.id).tags
     /\ \A i \in 1..Len(inflight) :
          UpdateNoteDone(i) /\ findNote(notes, inflight[i].ctx.id) # NULL =>
            /\ findNote(notes', inflight[i].ctx.id) = inflight[i].arg.data
            /\ dbNotes'[inflight[i].ctx.id] = inflight[i].arg.data
    ]_vars

\* C17: no update is lost between the toggles of one note: when a
\* togglePinNote completes, the note keeps in the list and in the store the
\* archive flag it had there, whichever toggleArchiveNote set it meanwhile,
\* and when a toggleArchiveNote completes the note keeps its pin flag.
NoLostUpdate ==
  [][\A i \in 1..Len(inflight) :
       LET id == inflight[i].ctx.id
       IN /\ ( TogglePinNoteDone(i) /\ findNote(notes, id) # NULL
                 /\ id \in DOMAIN dbNotes ) =>
               /\ findNote(notes', id).isArchived = findNote(notes, id).isArchived
               /\ dbNotes'[id].isArchived = dbNotes[id].isArchived
          /\ ( ToggleArchiveNoteDone(i) /\ findNote(notes, id) # NULL
                 /\ id \in DOMAIN dbNotes ) =>
               /\ findNote(notes', id).isPinned = findNote(notes, id).isPinned
               /\ dbNotes'[id].isPinned = dbNotes[id].isPinned
    ]_vars

(***************************************************************************)
(* Adding a note of a category: the user opens the add dialog, fills the   *)
(* form with a title, a content, the category Work and tags, adds the      *)
(* note, and deletes the category Work, while the clock goes on.           *)
(***************************************************************************)
WorkForm ==
  [emptyNewNote EXCEPT !.title = Str("a"), !.content = Str("b"), !.category = "Work"]

NextAddNote ==
  \/ Tick
  \/ SetNewNote(WorkForm)
  \/ SetIsAddingNote(TRUE)
  \/ HandleTagChangeNew(<< <<" ", "a">>, EmptyStr >>)
  \/ AddNote
  \/ DeleteCategory("Work")
  \/ \E i \in 1..Len(inflight) :
       \/ InitDone(i)
       \/ AddNoteDone(i) \/ DeleteCategoryDone(i)

SpecAddNote == Init /\ [][NextAddNote]_vars

\* the colour of the first category of a name, '#CCCCCC' without one
colorOfCategory(name) ==
  IF \E k \in 1..Len(categories) : categories[k].name = name
  THEN categories[CHOOSE k \in 1..Len(categories) :
                    /\ categories[k].name = name
                    /\ \A j \in 1..(k - 1) : categories[j].name # name].color
  ELSE "#CCCCCC"

NextUpdate ==
  \/ Tick
  \/ \E k \in {1, 2} : SetEditingNote(k)
  \/ CloseEditDialog
  \/ \E title \in EditTitles : EditTitle(title)
  \/ UpdateNote
  \/ \E i \in 1..Len(inflight) :
       \/ InitDone(i)
       \/ UpdateNoteDone(i)
       \/ RequestRejected(i)

SpecUpdate == Init /\ [][NextUpdate]_vars

\* C19: updateNote with a note in the edit dialog requests the put of that
\* note with updatedAt the current time and changes nothing yet; its
\* completion replaces in the list the note of that id and no other, keeps
\* the id and createdAt of that note, gives it an updatedAt not earlier than
\* before, keeps the number of notes, writes the store under that key only
\* and sets editingNote to null.  updateNote with editingNote null changes
\* nothing and requests nothing.
UpdateNoteReplacesOneNote ==
  [][/\ (UpdateNote /\ editingNote # NULL) =>
          /\ Len(inflight') = Len(inflight) + 1
          /\ UNCHANGED <<notes, dbNotes, editingNote>>
          /\ LET n == inflight'[Len(inflight')].arg.data
             IN /\ n.id = editingNote.id
                /\ n.updatedAt = DateOf(now)
     /\ (UpdateNote /\ editingNote = NULL) =>
          /\ UNCHANGED <<notes, categories, dbNotes, dbCategories, inflight,
                         editingNote, view>>
          /\ toasts' = <<>>
     /\ \A i \in 1..Len(inflight) :
          UpdateNoteDone(i) =>
            LET id == inflight[i].ctx.id
            IN /\ Len(notes') = Len(notes)
               /\ \A k \in 1..Len(notes) :
                    IF notes[k].id = id
                    THEN /\ notes'[k] = inflight[i].arg.data
                         /\ notes'[k].id = notes[k].id
                         /\ notes'[k].createdAt = notes[k].createdAt
                         /\ getTime(notes'[k].updatedAt) >= getTime(notes[k].updatedAt)
                    ELSE notes'[k] = notes[k]
               /\ \A k \in DOMAIN dbNotes \ {id} :
                    k \in DOMAIN dbNotes' /\ dbNotes'[k] = dbNotes[k]
               /\ DOMAIN dbNotes' = DOMAIN dbNotes \cup {id}
               /\ editingNote' = NULL
    ]_vars

\* a welcome note has been saved with a new title at a later time
\* than it was created, the other notes as they were
NoteUpdated ==
  /\ toasts = <<Toast("success", "noteUpdated")>>
  /\ editingNote = NULL
  /\ Len(notes) = 3
  /\ \E k \in 1..3 :
       /\ notes[k].title = Str("B")
       /\ getTime(notes[k].updatedAt) > getTime(notes[k].createdAt)
       /\ dbNotes[notes[k].id] = notes[k]
       /\ \A j \in (1..3) \ {k} : notes[j] = welcomeNotes(StartClock)[j]

\* what a toggle of the pin leaves alone in a note, and a toggle of the
\* archive
exceptPinned(n) == [n EXCEPT !.isPinned = FALSE]
exceptArchived(n) == [n EXCEPT !.isArchived = FALSE]

\* C20: a completing togglePinNote changes isPinned of its note and nothing
\* else, in the list and in the store: the other fields of the note and
\* every other note stay as they were; likewise a completing
\* toggleArchiveNote changes isArchived of its note and nothing else.
TogglesChangeOnlyTheirFlag ==
  [][\A i \in 1..Len(inflight) :
       LET id == inflight[i].ctx.id
       IN /\ ( TogglePinNoteDone(i) /\ id \in DOMAIN dbNotes ) =>
               /\ Len(notes') = Len(notes)
               /\ \A k \in 1..Len(notes) :
                    IF notes[k].id = id
                    THEN exceptPinned(notes'[k]) = exceptPinned(notes[k])
                    ELSE notes'[k] = notes[k]
               /\ DOMAIN dbNotes' = DOMAIN dbNotes
               /\ \A k \in DOMAIN dbNotes :
                    IF k = id
                    THEN exceptPinned(dbNotes'[k]) = exceptPinned(dbNotes[k])
                    ELSE dbNotes'[k] = dbNotes[k]
          /\ ( ToggleArchiveNoteDone(i) /\ id \in DOMAIN dbNotes ) =>
               /\ Len(notes') = Len(notes)
               /\ \A k \in 1..Len(notes) :
                    IF notes[k].id = id
                    THEN exceptArchived(notes'[k]) = exceptArchived(notes[k])
                    ELSE notes'[k] = notes[k]
               /\ DOMAIN dbNotes' = DOMAIN dbNotes
               /\ \A k \in DOMAIN dbNotes :
                    IF k = id
                    THEN exceptArchived(dbNotes'[k]) = exceptArchived(dbNotes[k])
                    ELSE dbNotes'[k] = dbNotes[k]
    ]_vars

\* C21: when deleteCategory(c) completes, no category named c is in the
\* categories list or in the 'categories' store, every listed note of
\* category c has category 'Uncategorized' and its other fields, the colour
\* included, as before, and the notes of other categories are as before.
DeleteCategoryUncategorizes ==
  [][\A i \in 1..Len(inflight) :
       DeleteCategoryDone(i) =>
         LET c == inflight[i].ctx.name
         IN /\ \A k \in 1..Len(categories') : categories'[k].name # c
            /\ c \notin DOMAIN dbCategories'
            /\ Len(notes') = Len(notes)
            /\ \A k \in 1..Len(notes) :
                 IF notes[k].category = c
                 THEN /\ notes'[k].category = "Uncategorized"
                      /\ [notes'[k] EXCEPT !.category = c] = notes[k]
                 ELSE notes'[k] = notes[k]
    ]_vars

\* the category Personal has been deleted: its welcome note is uncategorized
\* in its colour, the two other welcome notes are as they were
CategoryDeleted ==
  /\ toasts = <<Toast("success", "categoryDeleted")>>
  /\ \A k \in 1..Len(categories) : categories[k].name # "Personal"
  /\ "Personal" \notin DOMAIN dbCategories
  /\ Len(notes) = 3
  /\ notes[1] = [welcomeNotes(StartClock)[1] EXCEPT !.category = "Uncategorized"]
  /\ notes[1].color = "#33FF57"
  /\ notes[2] = welcomeNotes(StartClock)[2] /\ notes[3] = welcomeNotes(StartClock)[3]

\* C22: no two entries of the categories list have the same name.
CategoryNamesUnique ==
  \A j, k \in 1..Len(categories) : categories[j].name = categories[k].name => j = k

\* C23: no two notes of the notes list have the same id.
NoteIdsUnique ==
  \A j, k \in 1..Len(notes) : notes[j].id = notes[k].id => j = k

====
